---- MODULE Spec2Model ----
(***************************************************************************)
(* Model of backend/app.py: the lazily loaded, process-wide dataframe      *)
(* cache (get_dataframe), the request handlers that use it (health_check,  *)
(* get_filter_options, get_stats, get_data), the filter-and-aggregate      *)
(* computation of get_stats and the keyword parser of search.              *)
(*                                                                         *)
(* Encoding of values.  A row of the dataframe is a function from column   *)
(* names (the source's own column names) to cell values.  An absent string *)
(* cell is "NaN" (read_csv turns the text NaN and the empty field into an  *)
(* absent value, so no stored string equals it), an absent numeric cell is *)
(* NumNaN, an unparsable timestamp is NaT.  Latitudes and longitudes are   *)
(* in tenths of a degree (40.4 is 404, -74.5 is -745).  A timestamp is     *)
(* <<year, month>>.  The columns HOUR, DAY, season, SAFETY_USED and        *)
(* PERSON_ID and the aggregates computed from them are left out: they are  *)
(* present in every dataset and no property below reads them.              *)
(*                                                                         *)
(* The module also models backend/import_csv_to_mysql.py, the script that  *)
(* loads the same CSV into the crashes table of the database: table is     *)
(* that table, imp the position of the running script.  A stored cell is   *)
(* <<>> for SQL NULL and <<v>> for the value v.                            *)
(***************************************************************************)
EXTENDS Integers, Sequences, FiniteSets, TLC

VARIABLES csv, df_cache, pc, req, local_df, resp, installs, table, imp

vars == <<csv, df_cache, pc, req, local_df, resp, installs, table, imp>>

(* ------------------------------ bounds -------------------------------- *)

\* number of request threads of the server
NumThreads == 2

\* rows of the large dataset (more than the geo cap, so that the cap bites)
BigLen == 520

\* words of a search query
MaxWords == 3

\* rows of one chunk of the import's reader (50000 in the source, scaled so
\* that a file of a few rows spans several chunks)
chunk_size == 2

\* runs of the import script
MaxRuns == 3

(* -------------------------- program constants ------------------------- *)

\* head(10) of by_vehicle / by_factor
TopN == 10

\* head(500) of geo_df
GeoCap == 500

\* NYC bounding box, tenths of a degree
LatMin == 404

LatMax == 409

LonMin == -745

LonMax == -735

\* head(15) of the vehicle types and factors of the filter catalog
CatalogTop == 15

\* head(100) of get_data
DataCap == 100

\* the absent numeric cell (float NaN)
NumNaN == -99999

\* the absent string cell
StrNaN == "NaN"

\* the unparsable / absent timestamp
NaT == <<>>

\* Python's None, where a string can stand
None == "None"

\* Python's None, where a DataFrame can stand (no object is named 0)
NoDf == [obj |-> 0, columns |-> <<>>, rows |-> <<>>]

(* ------------------------------ helpers ------------------------------- *)

Min(a, b) == IF a < b THEN a ELSE b

Range(s) == {s[i] : i \in DOMAIN s}

\* Series.head(n) / DataFrame.head(n)
HeadN(s, n) == SubSeq(s, 1, Min(n, Len(s)))

\* the characters of the strings the program compares character by
\* character: the year values of a request, the keywords of the search
\* parser and the words of the queries
Spell(s) ==
    CASE s = "2021" -> <<"2", "0", "2", "1">>
      [] s = "2022" -> <<"2", "0", "2", "2">>
      [] s = "1999" -> <<"1", "9", "9", "9">>
      [] s = "20x2" -> <<"2", "0", "x", "2">>
      [] s = "All" -> <<"A", "l", "l">>
      [] s = "" -> <<>>
      [] s = "bronx" -> <<"b", "r", "o", "n", "x">>
      [] s = "brooklyn" -> <<"b", "r", "o", "o", "k", "l", "y", "n">>
      [] s = "manhattan" -> <<"m", "a", "n", "h", "a", "t", "t", "a", "n">>
      [] s = "queens" -> <<"q", "u", "e", "e", "n", "s">>
      [] s = "staten island" -> <<"s", "t", "a", "t", "e", "n", " ", "i", "s", "l", "a", "n", "d">>
      [] s = "BRONX" -> <<"B", "R", "O", "N", "X">>
      [] s = "BROOKLYN" -> <<"B", "R", "O", "O", "K", "L", "Y", "N">>
      [] s = "MANHATTAN" -> <<"M", "A", "N", "H", "A", "T", "T", "A", "N">>
      [] s = "QUEENS" -> <<"Q", "U", "E", "E", "N", "S">>
      [] s = "STATEN ISLAND" -> <<"S", "T", "A", "T", "E", "N", " ", "I", "S", "L", "A", "N", "D">>
      [] s = "pedestrian" -> <<"p", "e", "d", "e", "s", "t", "r", "i", "a", "n">>
      [] s = "cyclist" -> <<"c", "y", "c", "l", "i", "s", "t">>
      [] s = "bicycle" -> <<"b", "i", "c", "y", "c", "l", "e">>
      [] s = "bike" -> <<"b", "i", "k", "e">>
      [] s = "driver" -> <<"d", "r", "i", "v", "e", "r">>
      [] s = "motorist" -> <<"m", "o", "t", "o", "r", "i", "s", "t">>
      [] s = "killed" -> <<"k", "i", "l", "l", "e", "d">>
      [] s = "fatal" -> <<"f", "a", "t", "a", "l">>
      [] s = "death" -> <<"d", "e", "a", "t", "h">>
      [] s = "injured" -> <<"i", "n", "j", "u", "r", "e", "d">>
      [] s = "Brooklyn" -> <<"B", "r", "o", "o", "k", "l", "y", "n">>
      [] s = "Manhattan" -> <<"M", "a", "n", "h", "a", "t", "t", "a", "n">>
      [] s = "20225" -> <<"2", "0", "2", "2", "5">>
      [] s = "x2022" -> <<"x", "2", "0", "2", "2">>
      [] s = "Cyclist" -> <<"C", "y", "c", "l", "i", "s", "t">>
      [] s = "FATAL" -> <<"F", "A", "T", "A", "L">>
      [] s = "crashes" -> <<"c", "r", "a", "s", "h", "e", "s">>
      [] s = " " -> <<" ">>

DigitOf(c) ==
    CASE c = "0" -> 0 [] c = "1" -> 1 [] c = "2" -> 2 [] c = "3" -> 3
      [] c = "4" -> 4 [] c = "5" -> 5 [] c = "6" -> 6 [] c = "7" -> 7
      [] c = "8" -> 8 [] c = "9" -> 9

IsDigit(c) == c \in {"0", "1", "2", "3", "4", "5", "6", "7", "8", "9"}

\* int(text) raises ValueError unless the text is a non-empty digit string
IsNumeric(s) == Spell(s) # <<>> /\ \A i \in DOMAIN Spell(s) : IsDigit(Spell(s)[i])

RECURSIVE DigitsValue(_)
DigitsValue(cs) ==
    IF cs = <<>> THEN 0
    ELSE 10 * DigitsValue(SubSeq(cs, 1, Len(cs) - 1)) + DigitOf(cs[Len(cs)])

\* int(filters['year'])
ParseInt(s) == DigitsValue(Spell(s))

\* the strings Spell knows
Texts ==
    {"2021", "2022", "1999", "20x2", "All", "bronx", "brooklyn", "manhattan", "queens", "staten island",
     "BRONX", "BROOKLYN", "MANHATTAN", "QUEENS", "STATEN ISLAND",
     "pedestrian", "cyclist", "bicycle", "bike", "driver", "motorist",
     "killed", "fatal", "death", "injured", "Brooklyn", "Manhattan", "20225", "x2022", "Cyclist", "FATAL",
     "crashes", " ", ""}

\* the string with the given characters
Text(cs) == CHOOSE s \in Texts : Spell(s) = cs

(* ------------------------------ datasets ------------------------------ *)

\* the columns of the cleaned CSV that the model keeps, without the date column
BaseColumns ==
    <<"COLLISION_ID", "BOROUGH", "VEHICLE TYPE CODE 1",
      "CONTRIBUTING FACTOR VEHICLE 1", "PERSON_TYPE", "PERSON_INJURY",
      "NUMBER OF PERSONS INJURED", "NUMBER OF PERSONS KILLED",
      "LATITUDE", "LONGITUDE">>

\* a row of the file: v lists the cells in the order date, then BaseColumns
RawRow(dc, v) ==
    LET base == [c \in Range(BaseColumns) |->
                    v[1 + CHOOSE i \in DOMAIN BaseColumns : BaseColumns[i] = c]]
    IN  IF dc = None THEN base ELSE (dc :> v[1]) @@ base

\* person-rows the small datasets are drawn from: collision 1 has two
\* person-rows in BROOKLYN in 2022; collision 2 has one in QUEENS in 2021 with
\* a latitude outside the bounding box and one recorded under BROOKLYN on the
\* corner of the box with a date that cannot be parsed; collision 3 has no
\* borough and no coordinates
PoolRows ==
    << <<(<<2022, 3>>), 1, "BROOKLYN", "Sedan", "Speed", "Pedestrian", "Injured", 1, 0, 407, -740>>,
       <<(<<2022, 3>>), 1, "BROOKLYN", "Sedan", "Speed", "Occupant", "Killed", 1, 1, 407, -740>>,
       <<(<<2021, 7>>), 2, "QUEENS", "Taxi", StrNaN, "Cyclist", "Injured", 1, 0, 415, -739>>,
       <<(<<2022, 5>>), 3, StrNaN, "Bike", "Speed", "Pedestrian", "Killed", 0, 1, NumNaN, NumNaN>>,
       <<(<<2022, 13>>), 2, "BROOKLYN", "Taxi", "Alcohol", "Pedestrian", "Unspecified", 1, 0, 409, -745>> >>

\* the vehicle types and boroughs of the large dataset
BigVehicles ==
    <<"Ambulance", "Bike", "Bus", "Convertible", "Dump", "E-Scooter", "Moped",
      "Motorcycle", "Pick-up Truck", "Sedan", "Taxi", "Van">>

BigBoroughs == <<"BRONX", "BROOKLYN", "MANHATTAN", "QUEENS", "STATEN ISLAND">>

\* row i of the large dataset: a few rows lack coordinates or lie outside
\* the bounding box, the vehicle types have different frequencies
BigRow(i) ==
    << <<2021 + (i % 2), 1 + (i % 12)>>,
       (i + 1) \div 2,
       BigBoroughs[1 + (i % 5)],
       IF i % 3 = 0 THEN "Sedan" ELSE IF i % 29 = 0 THEN StrNaN ELSE BigVehicles[1 + (i % 12)],
       IF i % 4 = 0 THEN "Speed" ELSE "Alcohol",
       IF i % 2 = 0 THEN "Pedestrian" ELSE "Occupant",
       IF i % 7 = 0 THEN "Killed" ELSE "Injured",
       1, 0,
       IF i % 200 = 0 THEN NumNaN ELSE IF i % 100 = 1 THEN 415 ELSE 404 + (i % 6),
       IF i % 200 = 0 THEN NumNaN ELSE IF i % 150 = 2 THEN -734 ELSE -745 + (i % 11) >>

\* the CSV file on disk: whether it exists, its header and its rows
File(dc, rowvals) ==
    [exists  |-> TRUE,
     columns |-> IF dc = None THEN BaseColumns ELSE <<dc>> \o BaseColumns,
     rows    |-> [i \in DOMAIN rowvals |-> RawRow(dc, rowvals[i])]]

MissingFile == [exists |-> FALSE, columns |-> <<>>, rows |-> <<>>]

\* the rows of PoolRows with index in mask, in order
RECURSIVE PickRows(_, _)
PickRows(k, mask) ==
    IF k = 0 THEN <<>>
    ELSE IF k \in mask THEN Append(PickRows(k - 1, mask), PoolRows[k])
         ELSE PickRows(k - 1, mask)

\* the two-collision scenario: collision 1 twice in BROOKLYN, collision 2 in QUEENS
ScenarioRows == PickRows(3, {1, 2, 3})

\* files of the concurrent specification: the date column under its
\* standard name, under a name the loader finds by the word date, a header
\* without any date column, and no file at all
Files ==
    {File(dc, ScenarioRows) : dc \in {"CRASH_DATE", "Accident Date", None}}
        \cup {MissingFile}

\* the file of the two-collision scenario
ScenarioFile == File("CRASH_DATE", ScenarioRows)

BigFile == File("CRASH DATE", [i \in 1..BigLen |-> BigRow(i)])

\* files of the aggregation specification
StatsFiles ==
    {File("CRASH_DATE", PickRows(Len(PoolRows), mask)) : mask \in SUBSET DOMAIN PoolRows}
        \cup {BigFile}

(* --------------------------- get_dataframe ---------------------------- *)

\* 'date' in col.lower(), for the column names a header can hold
HasDateInName(col) ==
    col \in {"CRASH_DATE", "CRASH DATE", "crash_date", "Crash Date", "Accident Date"}

\* the date column the loader settles on, None when it raises ValueError
DateColumn(columns) ==
    IF "CRASH_DATE" \in Range(columns) THEN "CRASH_DATE"
    ELSE IF "CRASH DATE" \in Range(columns) THEN "CRASH DATE"
    ELSE IF "crash_date" \in Range(columns) THEN "crash_date"
    ELSE IF "Crash Date" \in Range(columns) THEN "Crash Date"
    ELSE LET date_cols == SelectSeq(columns, HasDateInName)
         IN  IF date_cols # <<>> THEN date_cols[1] ELSE None

\* pd.to_datetime(value, errors='coerce')
ToDatetime(v) == IF Len(v) = 2 /\ v[2] \in 1..12 THEN v ELSE NaT

\* Series.dt.year
YearOf(ts) == IF ts = NaT THEN NumNaN ELSE ts[1]

\* df[col] = values: a new column is appended to the header
WithColumn(columns, col) ==
    IF col \in Range(columns) THEN columns ELSE Append(columns, col)

\* pd.read_csv: a new DataFrame object holding the table as read; the object
\* is named after the thread that read it (a thread holds one at a time)
ReadCsv(file, t) == [obj |-> t, columns |-> file.columns, rows |-> file.rows]

\* CRASH_DATE standardised and YEAR derived (the date column is known)
Normalise(df) ==
    LET dc == DateColumn(df.columns)
        withDate == [i \in DOMAIN df.rows |->
                        ("CRASH_DATE" :> ToDatetime(df.rows[i][dc])) @@ df.rows[i]]
        withYear == [i \in DOMAIN withDate |->
                        ("YEAR" :> YearOf(withDate[i]["CRASH_DATE"])) @@ withDate[i]]
    IN  [obj     |-> df.obj,
         columns |-> WithColumn(WithColumn(df.columns, "CRASH_DATE"), "YEAR"),
         rows    |-> withYear]

(* ------------------------------ requests ------------------------------ *)

Threads == 1..NumThreads

\* jsonify({...}), status: a response of a handler
Response(status, body) == [status |-> status, body |-> body]

NoResponse == Response(0, <<>>)

\* a request: the handler it is routed to and its JSON body
Request(kind, filters) == [kind |-> kind, filters |-> filters]

NoRequest == Request(None, <<>>)

(* ------------------------- pandas operations -------------------------- *)

\* a count of person-rows where distinct values are meant: len(Series)
CountRows(rows, col, na) == Len(rows)

\* Series.nunique(): the distinct values, absent ones not counted
NUnique(rows, col, na) == Cardinality({rows[i][col] : i \in DOMAIN rows} \ {na})

\* the sum of value * (number of rows holding it) over a set of values
RECURSIVE WeightedSum(_, _, _)
WeightedSum(vals, rows, col) ==
    IF vals = {} THEN 0
    ELSE LET v == CHOOSE x \in vals : TRUE
         IN  v * Cardinality({i \in DOMAIN rows : rows[i][col] = v})
                + WeightedSum(vals \ {v}, rows, col)

\* Series.sum(): absent values are skipped
SumColumn(rows, col) ==
    WeightedSum({rows[i][col] : i \in DOMAIN rows} \ {NumNaN}, rows, col)

\* df[df[col] == value] on a string column: exact equality, NaN equals nothing
Where(rows, col, value) ==
    SelectSeq(rows, LAMBDA r : r[col] # StrNaN /\ r[col] = value)

\* df[df['YEAR'] == year]
WhereYear(rows, year) ==
    SelectSeq(rows, LAMBDA r : r["YEAR"] # NumNaN /\ r["YEAR"] = year)

\* a group-by that counts the person-rows of each group: groupby(key).size()
GroupSize(rows, key, col) ==
    [g \in {rows[i][key] : i \in DOMAIN rows} \ {StrNaN} |->
        Cardinality({j \in DOMAIN rows : rows[j][key] = g})]

\* df.groupby(key)[col].nunique().to_dict(): one entry per group, the rows
\* with an absent key form no group
GroupNUnique(rows, key, col) ==
    [g \in {rows[i][key] : i \in DOMAIN rows} \ {StrNaN} |->
        Cardinality({rows[i][col] : i \in {j \in DOMAIN rows : rows[j][key] = g}}
                        \ {NumNaN})]

\* Series.value_counts(): <<value, count>> by descending count, equal counts
\* in the order the values first occur, absent values dropped
ValueCounts(rows, col) ==
    LET vals  == {rows[i][col] : i \in DOMAIN rows} \ {StrNaN}
        cnt   == [v \in vals |-> Cardinality({i \in DOMAIN rows : rows[i][col] = v})]
        first == [v \in vals |-> CHOOSE i \in DOMAIN rows :
                                    /\ rows[i][col] = v
                                    /\ \A j \in 1..(i - 1) : rows[j][col] # v]
        pos   == [v \in vals |->
                    1 + Cardinality({w \in vals :
                            \/ cnt[w] > cnt[v]
                            \/ cnt[w] = cnt[v] /\ first[w] < first[v]})]
    IN  [p \in 1..Cardinality(vals) |->
            LET v == CHOOSE x \in vals : pos[x] = p IN <<v, cnt[v]>>]

\* str(value) of a string cell
Str(v) == IF v = StrNaN THEN "nan" ELSE v

(* ------------------------------ jsonify ------------------------------- *)

\* the strings that occur as keys of the value_counts dicts, in the order
\* Python compares strings
KeyOrder ==
    <<"Alcohol", "Ambulance", "Bike", "Bus", "Convertible", "Cyclist", "Dump",
      "E-Scooter", "Injured", "Killed", "Moped", "Motorcycle", "Occupant",
      "Pedestrian", "Pick-up Truck", "Sedan", "Speed", "Taxi", "Unspecified",
      "Van">>

KeyRank(k) == CHOOSE i \in DOMAIN KeyOrder : KeyOrder[i] = k

\* the entries of a dict in the order the JSON text lists them: the app never
\* changes Flask's JSON settings, and Flask's JSON provider serialises with
\* sort_keys=True, so the entries come out ordered by key
SortKeys(entries) ==
    [p \in DOMAIN entries |->
        CHOOSE e \in Range(entries) :
            1 + Cardinality({x \in Range(entries) : KeyRank(x[1]) < KeyRank(e[1])}) = p]

(* ----------------------------- get_stats ------------------------------ *)

\* filters.get(key)
FilterGet(filters, key) == IF key \in DOMAIN filters THEN filters[key] ELSE None

\* a guard that forgets the sentinel: every non-empty value is a constraint
AppliesAlsoAll(filters, key) ==
    /\ FilterGet(filters, key) # None
    /\ FilterGet(filters, key) # ""

\* filters.get(key) and filters[key] != 'All': the guard of every filter
Applies(filters, key) ==
    /\ FilterGet(filters, key) # None
    /\ FilterGet(filters, key) # ""
    /\ filters[key] # "All"

\* int(filters['year']) raises ValueError
YearRaises(filters) == Applies(filters, "year") /\ ~IsNumeric(filters["year"])

\* the year filter taken from the unfiltered dataframe instead of the rows the
\* borough filter left: filtered_df = df[df['YEAR'] == ...]
ApplyFiltersYearOnAll(rows, filters) ==
    LET f2 == IF Applies(filters, "year")
              THEN WhereYear(rows, ParseInt(filters["year"]))
              ELSE IF Applies(filters, "borough")
                   THEN Where(rows, "BOROUGH", filters["borough"]) ELSE rows
        f3 == IF Applies(filters, "vehicle_type")
              THEN Where(f2, "VEHICLE TYPE CODE 1", filters["vehicle_type"]) ELSE f2
        f4 == IF Applies(filters, "contributing_factor")
              THEN Where(f3, "CONTRIBUTING FACTOR VEHICLE 1", filters["contributing_factor"])
              ELSE f3
        f5 == IF Applies(filters, "person_type")
              THEN Where(f4, "PERSON_TYPE", filters["person_type"]) ELSE f4
    IN  IF Applies(filters, "injury_type")
        THEN Where(f5, "PERSON_INJURY", filters["injury_type"]) ELSE f5

\* the six filters, applied one after the other to the copy of the dataframe
ApplyFilters(rows, filters) ==
    LET f1 == IF Applies(filters, "borough")
              THEN Where(rows, "BOROUGH", filters["borough"]) ELSE rows
        f2 == IF Applies(filters, "year")
              THEN WhereYear(f1, ParseInt(filters["year"])) ELSE f1
        f3 == IF Applies(filters, "vehicle_type")
              THEN Where(f2, "VEHICLE TYPE CODE 1", filters["vehicle_type"]) ELSE f2
        f4 == IF Applies(filters, "contributing_factor")
              THEN Where(f3, "CONTRIBUTING FACTOR VEHICLE 1", filters["contributing_factor"])
              ELSE f3
        f5 == IF Applies(filters, "person_type")
              THEN Where(f4, "PERSON_TYPE", filters["person_type"]) ELSE f4
    IN  IF Applies(filters, "injury_type")
        THEN Where(f5, "PERSON_INJURY", filters["injury_type"]) ELSE f5

\* the NYC bounds of the dataframe filter
InBoundsFilter(r) ==
    /\ r["LATITUDE"] >= LatMin /\ r["LATITUDE"] <= LatMax
    /\ r["LONGITUDE"] >= LonMin /\ r["LONGITUDE"] <= LonMax

\* the NYC bounds checked again on every record
InBoundsRecheck(lat, lon) ==
    LatMin <= lat /\ lat <= LatMax /\ LonMin <= lon /\ lon <= LonMax

\* the cap forgotten: every qualifying row is emitted
GeoPrefixAll(geo_df) == geo_df

\* geo_df.head(500)
GeoPrefix(geo_df) == HeadN(geo_df, GeoCap)

\* the record emitted for a row of geo_data
GeoRecord(r) ==
    LET rec == [LATITUDE     |-> r["LATITUDE"],
                LONGITUDE    |-> r["LONGITUDE"],
                BOROUGH      |-> r["BOROUGH"],
                VEHICLE_TYPE |-> Str(r["VEHICLE TYPE CODE 1"]),
                INJURY_TYPE  |-> Str(r["PERSON_INJURY"])]
    IN  IF r["CRASH_DATE"] # NaT THEN ("CRASH_DATE" :> r["CRASH_DATE"]) @@ rec ELSE rec

\* the cap applied before the bounds: the first 500 rows with coordinates
\* are taken, and those outside the bounds are then left out
GeoDataCapFirst(filtered) ==
    LET geo_df   == SelectSeq(filtered,
                        LAMBDA r : r["LATITUDE"] # NumNaN /\ r["LONGITUDE"] # NumNaN)
        geo_data == IF Len(geo_df) > 0
                    THEN SelectSeq(GeoPrefix(geo_df), InBoundsFilter)
                    ELSE <<>>
        valid    == SelectSeq(geo_data,
                        LAMBDA r : InBoundsRecheck(r["LATITUDE"], r["LONGITUDE"]))
    IN  [i \in DOMAIN valid |-> GeoRecord(valid[i])]

\* geo_data: rows with both coordinates, inside the bounds, the first 500,
\* each checked again and turned into a record
GeoData(filtered) ==
    LET geo_df   == SelectSeq(filtered,
                        LAMBDA r : r["LATITUDE"] # NumNaN /\ r["LONGITUDE"] # NumNaN)
        geo_data == IF Len(geo_df) > 0
                    THEN GeoPrefix(SelectSeq(geo_df, InBoundsFilter))
                    ELSE <<>>
        valid    == SelectSeq(geo_data,
                        LAMBDA r : InBoundsRecheck(r["LATITUDE"], r["LONGITUDE"]))
    IN  [i \in DOMAIN valid |-> GeoRecord(valid[i])]

\* aggregates computed after the geo filter: the rows without coordinates or
\* outside the bounds are dropped from filtered_df itself
StatsBundleGeoFirst(rows, filters) ==
    LET filtered == SelectSeq(ApplyFilters(rows, filters),
                        LAMBDA r : /\ r["LATITUDE"] # NumNaN /\ r["LONGITUDE"] # NumNaN
                                   /\ InBoundsFilter(r))
    IN  [total_crashes  |-> NUnique(filtered, "COLLISION_ID", NumNaN),
         total_persons  |-> Len(filtered),
         total_injuries |-> SumColumn(filtered, "NUMBER OF PERSONS INJURED"),
         total_deaths   |-> SumColumn(filtered, "NUMBER OF PERSONS KILLED"),
         by_borough     |-> GroupNUnique(filtered, "BOROUGH", "COLLISION_ID"),
         by_vehicle     |-> HeadN(ValueCounts(filtered, "VEHICLE TYPE CODE 1"), TopN),
         by_factor      |-> HeadN(ValueCounts(filtered, "CONTRIBUTING FACTOR VEHICLE 1"), TopN),
         by_person_type |-> ValueCounts(filtered, "PERSON_TYPE"),
         by_injury      |-> ValueCounts(filtered, "PERSON_INJURY"),
         geo_data       |-> GeoData(filtered)]

\* the dict handed to jsonify
StatsBundle(rows, filters) ==
    LET filtered == ApplyFilters(rows, filters)
    IN  [total_crashes  |-> NUnique(filtered, "COLLISION_ID", NumNaN),
         total_persons  |-> Len(filtered),
         total_injuries |-> SumColumn(filtered, "NUMBER OF PERSONS INJURED"),
         total_deaths   |-> SumColumn(filtered, "NUMBER OF PERSONS KILLED"),
         by_borough     |-> GroupNUnique(filtered, "BOROUGH", "COLLISION_ID"),
         by_vehicle     |-> HeadN(ValueCounts(filtered, "VEHICLE TYPE CODE 1"), TopN),
         by_factor      |-> HeadN(ValueCounts(filtered, "CONTRIBUTING FACTOR VEHICLE 1"), TopN),
         by_person_type |-> ValueCounts(filtered, "PERSON_TYPE"),
         by_injury      |-> ValueCounts(filtered, "PERSON_INJURY"),
         geo_data       |-> GeoData(filtered)]

\* jsonify(bundle): the dicts built from value_counts are listed by key
Jsonify(bundle) ==
    [bundle EXCEPT !.by_vehicle     = SortKeys(@),
                   !.by_factor      = SortKeys(@),
                   !.by_person_type = SortKeys(@),
                   !.by_injury      = SortKeys(@)]

\* the body of get_stats after get_dataframe() returned df: the bundle, or
\* the error response of the except clause
StatsResponse(df, filters) ==
    IF YearRaises(filters)
    THEN Response(500, [error |-> "invalid literal for int()"])
    ELSE Response(200, Jsonify(StatsBundle(df.rows, filters)))

(* ---------------------- get_filter_options, get_data ------------------ *)

\* Series.dropna().unique().tolist(): the distinct values that are not
\* absent, in the order they first occur
Unique(rows, col, na) ==
    LET vals  == {rows[i][col] : i \in DOMAIN rows} \ {na}
        first == [v \in vals |-> CHOOSE i \in DOMAIN rows :
                                    /\ rows[i][col] = v
                                    /\ \A j \in 1..(i - 1) : rows[j][col] # v]
    IN  [p \in 1..Cardinality(vals) |->
            CHOOSE v \in vals : Cardinality({w \in vals : first[w] < first[v]}) = p - 1]

\* sorted(numbers)
SortAsc(S) ==
    [p \in 1..Cardinality(S) |->
        CHOOSE x \in S : Cardinality({y \in S : y < x}) = p - 1]

\* str(year): the digit string that int() reads back as the year
YearText(y) == CHOOSE s \in {"1999", "2021", "2022"} : ParseInt(s) = y

\* sorted(names) of borough names: BigBoroughs lists them as Python orders them
SortedBoroughs(S) == SelectSeq(BigBoroughs, LAMBDA b : b \in S)

\* value_counts().head(15).index.tolist()
TopIndex(rows, col) ==
    LET vc == HeadN(ValueCounts(rows, col), CatalogTop)
    IN  [p \in DOMAIN vc |-> vc[p][1]]

\* the filter catalog, computed from the dataframe get_dataframe() returned
FilterCatalog(rows) ==
    LET years == SortAsc({rows[i]["YEAR"] : i \in DOMAIN rows} \ {NumNaN})
    IN  [boroughs             |-> <<"All">> \o SortedBoroughs(Range(Unique(rows, "BOROUGH", StrNaN))),
         years                |-> <<"All">> \o [p \in DOMAIN years |-> YearText(years[p])],
         vehicle_types        |-> <<"All">> \o TopIndex(rows, "VEHICLE TYPE CODE 1"),
         contributing_factors |-> <<"All">> \o TopIndex(rows, "CONTRIBUTING FACTOR VEHICLE 1"),
         person_types         |-> <<"All">> \o Unique(rows, "PERSON_TYPE", StrNaN),
         injury_types         |-> <<"All">> \o Unique(rows, "PERSON_INJURY", StrNaN)]

\* the body of get_filter_options after get_dataframe() returned df
FiltersResponse(df) == Response(200, FilterCatalog(df.rows))

\* the absent value of a column, by the type of its cells
NaOf(col) ==
    IF col \in {"COLLISION_ID", "NUMBER OF PERSONS INJURED", "NUMBER OF PERSONS KILLED",
                "LATITUDE", "LONGITUDE", "YEAR"}
    THEN NumNaN
    ELSE IF HasDateInName(col) THEN NaT ELSE StrNaN

\* DataFrame.fillna('N/A'): a new table, the absent cells replaced
FillNa(rows) ==
    [i \in DOMAIN rows |->
        [c \in DOMAIN rows[i] |-> IF rows[i][c] = NaOf(c) THEN "N/A" ELSE rows[i][c]]]

\* the body of get_data after get_dataframe() returned df
DataResponse(df) ==
    Response(200, [data |-> FillNa(HeadN(df.rows, DataCap)), total |-> Len(df.rows)])

(* ------------------------------- search ------------------------------- *)

UpperLetters ==
    <<"A", "B", "C", "D", "E", "F", "G", "H", "I", "J", "K", "L", "M",
      "N", "O", "P", "Q", "R", "S", "T", "U", "V", "W", "X", "Y", "Z">>

LowerLetters ==
    <<"a", "b", "c", "d", "e", "f", "g", "h", "i", "j", "k", "l", "m",
      "n", "o", "p", "q", "r", "s", "t", "u", "v", "w", "x", "y", "z">>

\* the letter pairs of str.lower() and str.upper()
ToLower ==
    [c \in Range(UpperLetters) |->
        LowerLetters[CHOOSE k \in DOMAIN UpperLetters : UpperLetters[k] = c]]

ToUpper ==
    [c \in Range(LowerLetters) |->
        UpperLetters[CHOOSE k \in DOMAIN LowerLetters : LowerLetters[k] = c]]

\* a query that is matched as it was typed: the call of lower() left out
KeepCase(cs) == cs

\* str.lower() and str.upper(), character by character
LowerText(cs) ==
    [i \in DOMAIN cs |-> IF cs[i] \in DOMAIN ToLower THEN ToLower[cs[i]] ELSE cs[i]]

UpperText(cs) ==
    [i \in DOMAIN cs |-> IF cs[i] \in DOMAIN ToUpper THEN ToUpper[cs[i]] ELSE cs[i]]

\* needle in hay
Contains(hay, needle) ==
    \E i \in 1..(Len(hay) - Len(needle) + 1) :
        SubSeq(hay, i, i + Len(needle) - 1) = needle

\* keyword in query, for a keyword of the source
Has(query, keyword) == Contains(query, Spell(keyword))

\* \w of the regular expression
WordChars ==
    Range(LowerLetters) \cup Range(UpperLetters)
        \cup {"_", "0", "1", "2", "3", "4", "5", "6", "7", "8", "9"}

IsWordChar(c) == c \in WordChars

\* \b(20\d{2})\b matches at position i
YearAt(query, i) ==
    /\ i + 3 <= Len(query)
    /\ query[i] = "2" /\ query[i + 1] = "0"
    /\ IsDigit(query[i + 2]) /\ IsDigit(query[i + 3])
    /\ (i = 1 \/ ~IsWordChar(query[i - 1]))
    /\ (i + 3 = Len(query) \/ ~IsWordChar(query[i + 4]))

\* the list the borough loop runs through
boroughs == <<"bronx", "brooklyn", "manhattan", "queens", "staten island">>

\* a borough loop that takes the name that comes first in the query
ParseBoroughByPosition(query) ==
    LET hits == {k \in DOMAIN boroughs : Has(query, boroughs[k])}
        at(k) == CHOOSE i \in 1..Len(query) :
                    /\ SubSeq(query, i, i + Len(Spell(boroughs[k])) - 1) = Spell(boroughs[k])
                    /\ \A j \in 1..(i - 1) :
                          SubSeq(query, j, j + Len(Spell(boroughs[k])) - 1) # Spell(boroughs[k])
    IN  IF hits = {} THEN None
        ELSE Text(UpperText(Spell(boroughs[CHOOSE k \in hits : \A j \in hits : at(k) <= at(j)])))

\* for borough in boroughs: if borough in query: ...upper(); break
ParseBorough(query) ==
    LET hits == {k \in DOMAIN boroughs : Has(query, boroughs[k])}
    IN  IF hits = {} THEN None
        ELSE Text(UpperText(Spell(boroughs[CHOOSE k \in hits : \A j \in hits : k <= j])))

\* re.findall(...)[0]: the leftmost match
ParseYear(query) ==
    LET hits == {i \in 1..Len(query) : YearAt(query, i)}
    IN  IF hits = {} THEN None
        ELSE LET i == CHOOSE k \in hits : \A j \in hits : k <= j
             IN  Text(SubSeq(query, i, i + 3))

ParsePersonType(query) ==
    IF Has(query, "pedestrian") THEN "Pedestrian"
    ELSE IF Has(query, "cyclist") \/ Has(query, "bicycle") \/ Has(query, "bike") THEN "Cyclist"
    ELSE IF Has(query, "driver") \/ Has(query, "motorist") THEN "Occupant"
    ELSE None

ParseInjuryType(query) ==
    IF Has(query, "killed") \/ Has(query, "fatal") \/ Has(query, "death") THEN "Killed"
    ELSE IF Has(query, "injured") THEN "Injured"
    ELSE None

\* the filters dict of search: a key is set only when its value was found
SearchFilters(text) ==
    LET query == LowerText(text)
        found == [borough     |-> ParseBorough(query),
                  year        |-> ParseYear(query),
                  person_type |-> ParsePersonType(query),
                  injury_type |-> ParseInjuryType(query)]
    IN  [k \in {j \in DOMAIN found : found[j] # None} |-> found[k]]

\* the body of search
SearchResponse(text) == Response(200, [filters |-> SearchFilters(text)])

\* the words the queries are made of
Words ==
    {"Brooklyn", "BRONX", "queens", "staten island", "2022", "2021", "20225",
     "x2022", "pedestrian", "Cyclist", "bike", "driver", "killed", "FATAL",
     "injured", "crashes"}

\* the texts of n words, each followed by a blank
RECURSIVE Phrases(_)
Phrases(n) ==
    IF n = 0 THEN {<<>>}
    ELSE {p \o Spell(w) \o Spell(" ") : p \in Phrases(n - 1), w \in Words}

\* a text without its last character
Chop(cs) == SubSeq(cs, 1, Len(cs) - 1)

\* the two queries of the docstring
ExampleQueries ==
    {Chop(Spell("Brooklyn") \o Spell(" ") \o Spell("2022") \o Spell(" ")
            \o Spell("pedestrian") \o Spell(" ") \o Spell("crashes") \o Spell(" ")),
     Chop(Spell("Manhattan") \o Spell(" ") \o Spell("cyclist") \o Spell(" ")
            \o Spell("killed") \o Spell(" "))}

\* the queries of the search specification: up to MaxWords words separated
\* by blanks, the empty query, and the queries of the docstring
Queries ==
    UNION {{Chop(p) : p \in Phrases(n)} : n \in 1..MaxWords}
        \cup {<<>>} \cup ExampleQueries

(* ------------------------ filter specifications ----------------------- *)

FilterKeys ==
    <<"borough", "year", "vehicle_type", "contributing_factor", "person_type",
      "injury_type">>

\* marks a key the request does not carry
Absent == "<absent>"

\* the JSON object with the keys whose value is given
MkFilter(vals) ==
    [k \in {FilterKeys[i] : i \in {j \in DOMAIN FilterKeys : vals[j] # Absent}} |->
        vals[CHOOSE i \in DOMAIN FilterKeys : FilterKeys[i] = k]]

\* the values a request gives each key: absent, the sentinel, a stored value
FilterOptions ==
    << {Absent, "All", "BROOKLYN"},
       {Absent, "All", "2022"},
       {Absent, "All", "Sedan"},
       {Absent, "All", "Speed"},
       {Absent, "All", "Pedestrian"},
       {Absent, "All", "Killed"} >>

\* further values of borough and year: the empty string, a value that
\* differs from a stored one only in case, another year, a non-numeric year
EdgeOptions ==
    << {Absent, "", "brooklyn", "BROOKLYN"},
       {Absent, "", "2021", "20x2"} >>

FilterSpecs ==
    {MkFilter(<<b, y, v, c, p, i>>) :
        b \in FilterOptions[1], y \in FilterOptions[2], v \in FilterOptions[3],
        c \in FilterOptions[4], p \in FilterOptions[5], i \in FilterOptions[6]}
    \cup
    {MkFilter(<<b, y, v, Absent, Absent, Absent>>) :
        b \in EdgeOptions[1], y \in EdgeOptions[2], v \in {Absent, "Sedan"}}

\* the specifications the large dataset is queried with
BigFilterSpecs ==
    {MkFilter(<<b, y, Absent, Absent, p, Absent>>) :
        b \in FilterOptions[1] \cup EdgeOptions[1], y \in FilterOptions[2],
        p \in {Absent, "Pedestrian"}}
    \cup {MkFilter(<<"All", "All", "All", "All", "All", "All">>)}

\* the specifications a file is queried with
SpecsFor(file) == IF Len(file.rows) > Len(PoolRows) THEN BigFilterSpecs ELSE FilterSpecs

\* the stats requests of the concurrent specification
SmallFilterSpecs ==
    {MkFilter(<<Absent, y, Absent, Absent, Absent, Absent>>) : y \in {Absent, "2022"}}

\* the search requests of the concurrent specification: "Brooklyn 2022"
SmallQueries == {Chop(Spell("Brooklyn") \o Spell(" ") \o Spell("2022") \o Spell(" "))}

(* ----------------- the database and the import script ----------------- *)

\* the database without a crashes table
NoTable == [exists |-> FALSE, rows |-> <<>>]

\* no run of the import script yet: env is the SAMPLE_ROWS variable of the
\* environment, SAMPLE_ROWS the module-level value parsed from it (<<>> is
\* None, <<n>> the integer n), offset the rows the reader has yielded, runs
\* the runs that reached the end of import_data
NoImport ==
    [pc |-> "idle", env |-> None, SAMPLE_ROWS |-> <<>>, offset |-> 0,
     completed |-> FALSE, runs |-> 0]

(* --------------------- the server, thread by thread ------------------- *)

Init ==
    /\ csv \in Files
    /\ df_cache = NoDf
    /\ pc = [t \in Threads |-> "idle"]
    /\ req = [t \in Threads |-> NoRequest]
    /\ local_df = [t \in Threads |-> NoDf]
    /\ resp = [t \in Threads |-> NoResponse]
    /\ installs = 0
    /\ table = NoTable
    /\ imp = NoImport

\* the response of the handler's except clause when get_dataframe() raises
LoadErrorResponse(kind, file) ==
    IF kind = "health"
    THEN Response(500, [status |-> "unhealthy", error |-> "Failed to load data",
                        csv_file_exists |-> file.exists])
    ELSE Response(500, [error |-> "load failed"])

\* a loader that remembers its failure: the exception handler stores an empty
\* DataFrame in the cache before the handler answers
RaiseAndCache(t) ==
    /\ resp' = [resp EXCEPT ![t] = LoadErrorResponse(req[t].kind, csv)]
    /\ local_df' = [local_df EXCEPT ![t] = NoDf]
    /\ pc' = [pc EXCEPT ![t] = "idle"]
    /\ df_cache' = [obj |-> t, columns |-> <<>>, rows |-> <<>>]
    /\ UNCHANGED <<csv, table, imp, req, installs>>

\* an exception that leaves get_dataframe() and is answered by the handler
Raise(t) ==
    /\ resp' = [resp EXCEPT ![t] = LoadErrorResponse(req[t].kind, csv)]
    /\ local_df' = [local_df EXCEPT ![t] = NoDf]
    /\ pc' = [pc EXCEPT ![t] = "idle"]
    /\ UNCHANGED <<csv, table, imp, df_cache, req, installs>>

\* a request arrives and is routed to its handler
Begin(t) ==
    /\ pc[t] = "idle"
    /\ \E r \in {Request("health", <<>>), Request("filters", <<>>), Request("data", <<>>)}
                    \cup {Request("stats", f) : f \in SmallFilterSpecs}
                    \cup {Request("search", [query |-> q]) : q \in SmallQueries} :
        /\ req' = [req EXCEPT ![t] = r]
        /\ pc' = [pc EXCEPT ![t] = IF r.kind \in {"health", "search"} THEN r.kind
                                   ELSE "gdf_check"]
    /\ resp' = [resp EXCEPT ![t] = NoResponse]
    /\ UNCHANGED <<csv, table, imp, df_cache, local_df, installs>>

\* a health check that never loads: the guard leads straight to the response
HealthCheckNoLoad(t) ==
    /\ pc[t] = "health"
    /\ pc' = [pc EXCEPT ![t] = "body"]
    /\ UNCHANGED <<csv, table, imp, df_cache, req, local_df, resp, installs>>

\* health_check up to its call of get_dataframe(): `not _df_cache` is the
\* truth value of a DataFrame once the cache is filled, which raises
\* ValueError outside the try block
HealthCheck(t) ==
    /\ pc[t] = "health"
    /\ IF df_cache # NoDf
       THEN /\ resp' = [resp EXCEPT ![t] = Response(500, [unhandled |-> "ValueError"])]
            /\ pc' = [pc EXCEPT ![t] = "idle"]
       ELSE /\ pc' = [pc EXCEPT ![t] = IF csv.exists THEN "gdf_check" ELSE "body"]
            /\ UNCHANGED resp
    /\ UNCHANGED <<csv, table, imp, df_cache, req, local_df, installs>>

\* get_dataframe: return the cached dataframe if already loaded
GdfCheck(t) ==
    /\ pc[t] = "gdf_check"
    /\ IF df_cache # NoDf
       THEN /\ local_df' = [local_df EXCEPT ![t] = df_cache]
            /\ pc' = [pc EXCEPT ![t] = "body"]
       ELSE /\ pc' = [pc EXCEPT ![t] = "gdf_read"]
            /\ UNCHANGED local_df
    /\ UNCHANGED <<csv, table, imp, df_cache, req, resp, installs>>

\* a loader that publishes early: the cache is assigned as soon as the file
\* is read, before the date column is standardised and YEAR is derived
GdfReadAndPublish(t) ==
    /\ pc[t] = "gdf_read"
    /\ csv.exists
    /\ local_df' = [local_df EXCEPT ![t] = ReadCsv(csv, t)]
    /\ df_cache' = ReadCsv(csv, t)
    /\ pc' = [pc EXCEPT ![t] = "gdf_norm"]
    /\ UNCHANGED <<csv, table, imp, req, resp, installs>>

\* get_dataframe: pd.read_csv succeeds
GdfRead(t) ==
    /\ pc[t] = "gdf_read"
    /\ csv.exists
    /\ local_df' = [local_df EXCEPT ![t] = ReadCsv(csv, t)]
    /\ pc' = [pc EXCEPT ![t] = "gdf_norm"]
    /\ UNCHANGED <<csv, table, imp, df_cache, req, resp, installs>>

\* get_dataframe: pd.read_csv fails with both engines (no file, an I/O
\* error) or with MemoryError, and the exception is raised again
GdfReadFails(t) ==
    /\ pc[t] = "gdf_read"
    /\ Raise(t)

\* get_dataframe: the date column is found, CRASH_DATE and YEAR are set
GdfNormalise(t) ==
    /\ pc[t] = "gdf_norm"
    /\ DateColumn(local_df[t].columns) # None
    /\ local_df' = [local_df EXCEPT ![t] = Normalise(local_df[t])]
    /\ pc' = [pc EXCEPT ![t] = "gdf_install"]
    /\ UNCHANGED <<csv, table, imp, df_cache, req, resp, installs>>

\* get_dataframe: no date column, ValueError
GdfNoDateColumn(t) ==
    /\ pc[t] = "gdf_norm"
    /\ DateColumn(local_df[t].columns) = None
    /\ Raise(t)

\* get_dataframe: _df_cache = df; return _df_cache
GdfInstall(t) ==
    /\ pc[t] = "gdf_install"
    /\ df_cache' = local_df[t]
    /\ installs' = installs + 1
    /\ pc' = [pc EXCEPT ![t] = "body"]
    /\ UNCHANGED <<csv, table, imp, req, local_df, resp>>

\* get_stats that filters the dataframe it was handed, not a copy of it:
\* filtered_df = df, and the rows that do not match are dropped in place
StatsBodyInPlace(t) ==
    /\ pc[t] = "body"
    /\ req[t].kind = "stats"
    /\ resp' = [resp EXCEPT ![t] = StatsResponse(local_df[t], req[t].filters)]
    /\ df_cache' = IF YearRaises(req[t].filters) THEN df_cache
                   ELSE [df_cache EXCEPT !.rows = ApplyFilters(local_df[t].rows, req[t].filters)]
    /\ local_df' = [local_df EXCEPT ![t] = NoDf]
    /\ pc' = [pc EXCEPT ![t] = "idle"]
    /\ UNCHANGED <<csv, table, imp, req, installs>>

\* get_stats after get_dataframe() returned
StatsBody(t) ==
    /\ pc[t] = "body"
    /\ req[t].kind = "stats"
    /\ resp' = [resp EXCEPT ![t] = StatsResponse(local_df[t], req[t].filters)]
    /\ local_df' = [local_df EXCEPT ![t] = NoDf]
    /\ pc' = [pc EXCEPT ![t] = "idle"]
    /\ UNCHANGED <<csv, table, imp, df_cache, req, installs>>

\* the response of health_check, built from the cache as it is now
HealthResponse(cache, file) ==
    LET base == [status |-> "healthy", csv_file_exists |-> file.exists,
                 data_loaded |-> cache # NoDf]
    IN  Response(200, IF cache # NoDf
                      THEN ("total_records" :> Len(cache.rows)) @@ base
                      ELSE base)

\* health_check after the load it triggered, or without one
HealthBody(t) ==
    /\ pc[t] = "body"
    /\ req[t].kind = "health"
    /\ resp' = [resp EXCEPT ![t] = HealthResponse(df_cache, csv)]
    /\ local_df' = [local_df EXCEPT ![t] = NoDf]
    /\ pc' = [pc EXCEPT ![t] = "idle"]
    /\ UNCHANGED <<csv, table, imp, df_cache, req, installs>>

\* get_filter_options after get_dataframe() returned
FiltersBody(t) ==
    /\ pc[t] = "body"
    /\ req[t].kind = "filters"
    /\ resp' = [resp EXCEPT ![t] = FiltersResponse(local_df[t])]
    /\ local_df' = [local_df EXCEPT ![t] = NoDf]
    /\ pc' = [pc EXCEPT ![t] = "idle"]
    /\ UNCHANGED <<csv, table, imp, df_cache, req, installs>>

\* get_data after get_dataframe() returned
DataBody(t) ==
    /\ pc[t] = "body"
    /\ req[t].kind = "data"
    /\ resp' = [resp EXCEPT ![t] = DataResponse(local_df[t])]
    /\ local_df' = [local_df EXCEPT ![t] = NoDf]
    /\ pc' = [pc EXCEPT ![t] = "idle"]
    /\ UNCHANGED <<csv, table, imp, df_cache, req, installs>>

\* search: the query is parsed, the dataset is not touched
Search(t) ==
    /\ pc[t] = "search"
    /\ resp' = [resp EXCEPT ![t] = SearchResponse(req[t].filters.query)]
    /\ pc' = [pc EXCEPT ![t] = "idle"]
    /\ UNCHANGED <<csv, table, imp, df_cache, req, local_df, installs>>

Next ==
    \E t \in Threads :
        \/ Begin(t)
        \/ HealthCheck(t)
        \/ GdfCheck(t)
        \/ GdfRead(t)
        \/ GdfReadFails(t)
        \/ GdfNormalise(t)
        \/ GdfNoDateColumn(t)
        \/ GdfInstall(t)
        \/ StatsBody(t)
        \/ HealthBody(t)
        \/ FiltersBody(t)
        \/ DataBody(t)
        \/ Search(t)

Spec == Init /\ [][Next]_vars

(* ------------- the aggregation engine, one request at a time ---------- *)

\* get_dataframe() run without interruption on a readable file:
\* the dataframe it returns, NoDf when it raises
GetDataframe(cache, file, t) ==
    IF cache # NoDf THEN cache
    ELSE IF ~file.exists \/ DateColumn(file.columns) = None THEN NoDf
    ELSE Normalise(ReadCsv(file, t))

InitStats ==
    /\ csv \in StatsFiles
    /\ df_cache = NoDf
    /\ pc = [t \in Threads |-> "idle"]
    /\ req = [t \in Threads |-> NoRequest]
    /\ local_df = [t \in Threads |-> NoDf]
    /\ resp = [t \in Threads |-> NoResponse]
    /\ installs = 0
    /\ table = NoTable
    /\ imp = NoImport

\* POST /api/stats served from start to end by thread 1
ServeStats(filters) ==
    LET df == GetDataframe(df_cache, csv, 1)
    IN  /\ req[1] = NoRequest
        /\ req' = [req EXCEPT ![1] = Request("stats", filters)]
        /\ df_cache' = df
        /\ installs' = IF df_cache = NoDf /\ df # NoDf THEN installs + 1 ELSE installs
        /\ resp' = [resp EXCEPT ![1] =
                        IF df = NoDf THEN LoadErrorResponse("stats", csv)
                        ELSE StatsResponse(df, filters)]
        /\ UNCHANGED <<csv, table, imp, pc, local_df>>

\* the response is sent, the thread is free for the next request
Sent ==
    /\ req[1] # NoRequest
    /\ req' = [req EXCEPT ![1] = NoRequest]
    /\ resp' = [resp EXCEPT ![1] = NoResponse]
    /\ UNCHANGED <<csv, table, imp, df_cache, pc, local_df, installs>>

NextStats ==
    \/ req[1] = NoRequest /\ \E f \in SpecsFor(csv) : ServeStats(f)
    \/ Sent

SpecStats == InitStats /\ [][NextStats]_vars

(* ------------------ the search parser, one query at a time ------------ *)

InitSearch ==
    /\ csv = ScenarioFile
    /\ df_cache = NoDf
    /\ pc = [t \in Threads |-> "idle"]
    /\ req = [t \in Threads |-> NoRequest]
    /\ local_df = [t \in Threads |-> NoDf]
    /\ resp = [t \in Threads |-> NoResponse]
    /\ installs = 0
    /\ table = NoTable
    /\ imp = NoImport

\* POST /api/search served from start to end by thread 1
ServeSearch(text) ==
    /\ req[1] = NoRequest
    /\ req' = [req EXCEPT ![1] = Request("search", [query |-> text])]
    /\ resp' = [resp EXCEPT ![1] = SearchResponse(text)]
    /\ UNCHANGED <<csv, table, imp, df_cache, pc, local_df, installs>>

NextSearch ==
    \/ req[1] = NoRequest /\ \E q \in Queries : ServeSearch(q)
    \/ Sent

SpecSearch == InitSearch /\ [][NextSearch]_vars

(* --------------------- import_csv_to_mysql.py ------------------------- *)

\* values of the environment variable SAMPLE_ROWS: unset, empty, zero,
\* positive and smaller or larger than the file, not a number, a decimal
\* fraction, negative
SampleEnvs == {None, "", "0", "2", "7", "abc", "2.5", "-1"}

\* the characters of a value of SAMPLE_ROWS
EnvChars(e) ==
    CASE e = "" -> <<>>
      [] e = "0" -> <<"0">>
      [] e = "2" -> <<"2">>
      [] e = "7" -> <<"7">>
      [] e = "abc" -> <<"a", "b", "c">>
      [] e = "2.5" -> <<"2", ".", "5">>
      [] e = "-1" -> <<"-", "1">>

\* int(text) accepts an optional sign followed by digits
IsIntText(cs) ==
    LET digits == IF cs # <<>> /\ cs[1] \in {"+", "-"} THEN Tail(cs) ELSE cs
    IN  digits # <<>> /\ \A i \in DOMAIN digits : IsDigit(digits[i])

IntOf(cs) ==
    IF cs[1] = "-" THEN 0 - DigitsValue(Tail(cs))
    ELSE IF cs[1] = "+" THEN DigitsValue(Tail(cs))
    ELSE DigitsValue(cs)

\* the module-level SAMPLE_ROWS: None when the variable is unset or empty or
\* int() raises, the integer otherwise
SampleRows(e) ==
    IF e = None \/ EnvChars(e) = <<>> THEN <<>>
    ELSE IF IsIntText(EnvChars(e)) THEN <<IntOf(EnvChars(e))>>
    ELSE <<>>

\* `if SAMPLE_ROWS:` is false for None and for 0
SampleMode(sample) == sample # <<>> /\ sample[1] # 0

\* the columns read_csv is told to use, of those the model keeps
columns ==
    <<"COLLISION_ID", "CRASH_DATE", "PERSON_TYPE", "PERSON_INJURY", "BOROUGH",
      "LATITUDE", "LONGITUDE", "NUMBER OF PERSONS INJURED",
      "NUMBER OF PERSONS KILLED", "CONTRIBUTING FACTOR VEHICLE 1",
      "VEHICLE TYPE CODE 1">>

\* read_csv(usecols=columns) raises ValueError when the header lacks one
UsecolsMatch(file) == Range(columns) \subseteq Range(file.columns)

\* read_csv raises: a column is missing, or nrows is negative
ReadRaises(file, sample) ==
    \/ ~UsecolsMatch(file)
    \/ SampleMode(sample) /\ sample[1] < 0

\* the row to_sql inserts for a row of the file: the used columns, the date
\* parsed with errors='coerce', every absent cell NULL; the table adds the
\* generated column YEAR
SqlRow(r) ==
    LET date == ToDatetime(r["CRASH_DATE"])
    IN  [c \in Range(columns) \cup {"YEAR"} |->
            IF c = "YEAR" THEN (IF date = NaT THEN <<>> ELSE <<YearOf(date)>>)
            ELSE IF c = "CRASH_DATE" THEN (IF date = NaT THEN <<>> ELSE <<date>>)
            ELSE IF r[c] = NaOf(c) THEN <<>>
            ELSE <<r[c]>>]

\* DataFrame.to_sql('crashes', if_exists='append'): the rows are added
\* after those the table holds
ToSql(tbl, rows) ==
    [tbl EXCEPT !.rows = tbl.rows \o [i \in DOMAIN rows |-> SqlRow(rows[i])]]

\* files of the import specification: every selection of the pool's rows
\* under the standard header, a header without CRASH_DATE, and no file
ImportFiles ==
    {File("CRASH_DATE", PickRows(Len(PoolRows), mask)) : mask \in SUBSET DOMAIN PoolRows}
        \cup {File("Accident Date", ScenarioRows), MissingFile}

InitImport ==
    /\ csv \in ImportFiles
    /\ df_cache = NoDf
    /\ pc = [t \in Threads |-> "idle"]
    /\ req = [t \in Threads |-> NoRequest]
    /\ local_df = [t \in Threads |-> NoDf]
    /\ resp = [t \in Threads |-> NoResponse]
    /\ installs = 0
    /\ table = NoTable
    /\ imp = NoImport

\* the script is started: SAMPLE_ROWS is parsed; without the file the script
\* exits before it connects
ImportBegin(e) ==
    /\ imp.pc = "idle"
    /\ imp.runs < MaxRuns
    /\ imp' = [imp EXCEPT !.pc = IF csv.exists THEN "drop" ELSE "idle",
                          !.env = e,
                          !.SAMPLE_ROWS = SampleRows(e),
                          !.offset = 0,
                          !.completed = FALSE]
    /\ UNCHANGED <<csv, table, df_cache, pc, req, local_df, resp, installs>>

\* DROP TABLE with no regard to the table the database holds: an existing
\* table is kept and used as it is
DropTableNever ==
    /\ imp.pc = "drop"
    /\ imp' = [imp EXCEPT !.pc = IF table.exists THEN "read" ELSE "create"]
    /\ UNCHANGED <<csv, table, df_cache, pc, req, local_df, resp, installs>>

\* the table is looked up in information_schema and dropped when it exists
DropTable ==
    /\ imp.pc = "drop"
    /\ table' = IF table.exists THEN NoTable ELSE table
    /\ imp' = [imp EXCEPT !.pc = "create"]
    /\ UNCHANGED <<csv, df_cache, pc, req, local_df, resp, installs>>

\* CREATE TABLE crashes and its indexes; the statement raises when the
\* table exists
CreateTable ==
    /\ imp.pc = "create"
    /\ IF table.exists
       THEN /\ imp' = [imp EXCEPT !.pc = "idle"]
            /\ UNCHANGED table
       ELSE /\ table' = [exists |-> TRUE, rows |-> <<>>]
            /\ imp' = [imp EXCEPT !.pc = "read"]
    /\ UNCHANGED <<csv, df_cache, pc, req, local_df, resp, installs>>

\* read_csv raises and the script ends with the traceback
ReadFails ==
    /\ imp.pc = "read"
    /\ ReadRaises(csv, imp.SAMPLE_ROWS)
    /\ imp' = [imp EXCEPT !.pc = "idle"]
    /\ UNCHANGED <<csv, table, df_cache, pc, req, local_df, resp, installs>>

\* sample mode: the first SAMPLE_ROWS rows are read and inserted at once
InsertSample ==
    /\ imp.pc = "read"
    /\ ~ReadRaises(csv, imp.SAMPLE_ROWS)
    /\ SampleMode(imp.SAMPLE_ROWS)
    /\ table' = ToSql(table, HeadN(csv.rows, imp.SAMPLE_ROWS[1]))
    /\ imp' = [imp EXCEPT !.pc = "verify"]
    /\ UNCHANGED <<csv, df_cache, pc, req, local_df, resp, installs>>

\* full mode: the chunked reader is opened
OpenReader ==
    /\ imp.pc = "read"
    /\ ~ReadRaises(csv, imp.SAMPLE_ROWS)
    /\ ~SampleMode(imp.SAMPLE_ROWS)
    /\ imp' = [imp EXCEPT !.pc = "chunks", !.offset = 0]
    /\ UNCHANGED <<csv, table, df_cache, pc, req, local_df, resp, installs>>

\* one pass of `for chunk in reader`: the next chunk_size rows are inserted
InsertChunk ==
    /\ imp.pc = "chunks"
    /\ imp.offset < Len(csv.rows)
    /\ LET last == Min(imp.offset + chunk_size, Len(csv.rows))
       IN  /\ table' = ToSql(table, SubSeq(csv.rows, imp.offset + 1, last))
           /\ imp' = [imp EXCEPT !.offset = last]
    /\ UNCHANGED <<csv, df_cache, pc, req, local_df, resp, installs>>

\* the reader is exhausted
EndOfFile ==
    /\ imp.pc = "chunks"
    /\ imp.offset >= Len(csv.rows)
    /\ imp' = [imp EXCEPT !.pc = "verify"]
    /\ UNCHANGED <<csv, table, df_cache, pc, req, local_df, resp, installs>>

\* the counting queries at the end of import_data: the run is complete
Verify ==
    /\ imp.pc = "verify"
    /\ imp' = [imp EXCEPT !.pc = "idle", !.completed = TRUE, !.runs = imp.runs + 1]
    /\ UNCHANGED <<csv, table, df_cache, pc, req, local_df, resp, installs>>

\* a statement sent to the database raises, or the script is interrupted:
\* the run ends where it is, what it committed stays
ImportFails ==
    /\ imp.pc \in {"drop", "create", "read", "chunks", "verify"}
    /\ imp' = [imp EXCEPT !.pc = "idle"]
    /\ UNCHANGED <<csv, table, df_cache, pc, req, local_df, resp, installs>>

NextImport ==
    \/ imp.pc = "idle" /\ \E e \in SampleEnvs : ImportBegin(e)
    \/ DropTable
    \/ CreateTable
    \/ ReadFails
    \/ InsertSample
    \/ OpenReader
    \/ InsertChunk
    \/ EndOfFile
    \/ Verify
    \/ ImportFails

SpecImport == InitImport /\ [][NextImport]_vars

(* ======================= properties: the cache ======================== *)

\* the threads that have read the source and hold the DataFrame they read,
\* not yet stored in the cache
Loading == {t \in Threads : pc[t] \in {"gdf_norm", "gdf_install"}}

\* the response a handler gives when get_dataframe() raised
IsLoadError(r) == r.status = 500 /\ "error" \in DOMAIN r.body

\* C1: single-flight load.  Counting the loads that have read the source and
\* are still under way together with the loads that were stored in the cache,
\* there is never more than one: no interleaving of first callers reads the
\* source twice.
SingleFlight == Cardinality(Loading) + installs <= 1

\* C2: memoization.  Once the cache holds a DataFrame it holds that same
\* object for ever: no step resets or replaces it, so every later call
\* returns it.
CacheNeverReplaced == [][df_cache # NoDf => df_cache' = df_cache]_vars

\* C3: a failed load is not cached.  A step in which get_dataframe() raises
\* (the read failed, or no date column was found) leaves the cache as it was,
\* so an empty cache stays empty; and a call that finds the cache empty goes
\* on to read the source, whatever failed before.
FailedLoadNotCached ==
    [][\A t \in Threads :
        /\ (pc[t] \in {"gdf_read", "gdf_norm"} /\ pc'[t] = "idle")
              => (df_cache' = df_cache /\ IsLoadError(resp'[t]))
        /\ (pc[t] = "gdf_check" /\ df_cache = NoDf /\ pc'[t] # pc[t])
              => pc'[t] = "gdf_read"]_vars

\* C3 witness: one request was answered with the load error, and the cache
\* has been filled by a load that succeeded
RetrySucceeded ==
    \E t \in Threads :
        /\ pc[t] = "idle" /\ req[t].kind = "stats"
        /\ resp[t] = LoadErrorResponse("stats", csv)
        /\ df_cache # NoDf /\ installs = 1

(* =================== properties: the aggregation engine =============== *)

\* the request thread 1 has just served, its response, and the dataset
ServedFilters == req[1].filters

ServedBody == resp[1].body

Served200 == req[1].kind = "stats" /\ resp[1].status = 200

\* the Filter Specification as the specification defines it: a key constrains
\* unless it is absent or holds the sentinel "All"
Constrains(F, k) == k \in DOMAIN F /\ F[k] # "All"

ColumnOf(k) ==
    CASE k = "borough" -> "BOROUGH"
      [] k = "vehicle_type" -> "VEHICLE TYPE CODE 1"
      [] k = "contributing_factor" -> "CONTRIBUTING FACTOR VEHICLE 1"
      [] k = "person_type" -> "PERSON_TYPE"
      [] k = "injury_type" -> "PERSON_INJURY"

\* a row satisfies the constraint k = v: the stored value is exactly v, the
\* year is the integer v denotes
RowSatisfies(r, k, v) ==
    IF k = "year" THEN IsNumeric(v) /\ r["YEAR"] = ParseInt(v)
    ELSE r[ColumnOf(k)] = v

RowMatches(r, F) == \A k \in DOMAIN F : Constrains(F, k) => RowSatisfies(r, k, F[k])

\* G is F with one more constraint
OneMoreConstraint(F, G) ==
    \E k \in Range(FilterKeys) :
        /\ ~Constrains(F, k)
        /\ Constrains(G, k)
        /\ \A j \in Range(FilterKeys) \ {k} : FilterGet(F, j) = FilterGet(G, j)

\* C4: total_persons is the number of rows of the dataset that match every
\* constraint of the Filter Specification, and total_crashes is at most
\* total_persons.
TotalsMatchSpec ==
    Served200 =>
        /\ ServedBody.total_persons =
              Cardinality({i \in DOMAIN df_cache.rows :
                              RowMatches(df_cache.rows[i], ServedFilters)})
        /\ ServedBody.total_crashes <= ServedBody.total_persons

\* C5: monotonic filtering.  For the specification F just served and every
\* specification G that is F with one more constraint, the bundle of G on the
\* same dataset has total_crashes and total_persons no larger than those of F.
MonotonicFiltering ==
    Served200 =>
        \A G \in SpecsFor(csv) :
            OneMoreConstraint(ServedFilters, G) =>
                LET r == StatsResponse(df_cache, G)
                IN  r.status = 200 =>
                        /\ r.body.total_crashes <= ServedBody.total_crashes
                        /\ r.body.total_persons <= ServedBody.total_persons

\* C5 witness: a served specification and a stricter one whose bundle counts
\* fewer persons, but some
StricterCountsFewer ==
    /\ Served200
    /\ \E G \in SpecsFor(csv) :
          /\ OneMoreConstraint(ServedFilters, G)
          /\ StatsResponse(df_cache, G).status = 200
          /\ StatsResponse(df_cache, G).body.total_persons > 0
          /\ StatsResponse(df_cache, G).body.total_persons < ServedBody.total_persons

AllSpec == MkFilter(<<"All", "All", "All", "All", "All", "All">>)

EmptySpec == MkFilter(<<Absent, Absent, Absent, Absent, Absent, Absent>>)

\* C6: the specification with all six keys set to "All" is answered with the
\* response the empty specification gets on the same dataset.
AllEqualsEmpty ==
    (req[1].kind = "stats" /\ ServedFilters = AllSpec /\ resp[1] # NoResponse)
        => resp[1] = StatsResponse(df_cache, EmptySpec)

\* C6 witness: the all-"All" specification served on a dataset with rows
AllServed ==
    Served200 /\ ServedFilters = AllSpec /\ ServedBody.total_persons > 0

\* C7: filters fully apply or the request fails.  When the bundle is returned,
\* every key present with a value other than "All" constrains it: the rows
\* counted are among the rows that satisfy that constraint by exact equality,
\* so they are no more than those.
NoConstraintSkipped ==
    Served200 =>
        \A k \in DOMAIN ServedFilters :
            ServedFilters[k] # "All" =>
                ServedBody.total_persons <=
                    Cardinality({i \in DOMAIN df_cache.rows :
                        RowSatisfies(df_cache.rows[i], k, ServedFilters[k])})

\* C8: a stats request whose year is present, not the sentinel and not
\* numeric is answered with the error response and nothing of the bundle.
NonNumericYearFails ==
    (/\ req[1].kind = "stats" /\ resp[1] # NoResponse
     /\ Constrains(ServedFilters, "year") /\ ~IsNumeric(ServedFilters["year"]))
        => (resp[1].status = 500 /\ DOMAIN ServedBody = {"error"})

\* the counts of a listed dict do not increase along the list
NonIncreasing(entries) ==
    \A i \in DOMAIN entries : \A j \in DOMAIN entries :
        i < j => entries[i][2] >= entries[j][2]

\* the listed entries are groups of the filtered rows with their row counts,
\* and no group left out has more rows than a listed one
TopGroups(entries, col) ==
    LET R == ApplyFilters(df_cache.rows, ServedFilters)
        count(v) == Cardinality({i \in DOMAIN R : R[i][col] = v})
    IN  /\ \A i \in DOMAIN entries : entries[i][2] = count(entries[i][1])
        /\ \A i \in DOMAIN R :
              (R[i][col] # StrNaN /\ \A j \in DOMAIN entries : entries[j][1] # R[i][col])
                  => \A j \in DOMAIN entries : count(R[i][col]) <= entries[j][2]

\* C9: by_vehicle and by_factor hold at most 10 entries, these are the groups
\* with the highest row counts, and the counts do not increase in the order
\* the response lists the entries.
TopTenOrdered ==
    Served200 =>
        /\ Len(ServedBody.by_vehicle) <= TopN
        /\ Len(ServedBody.by_factor) <= TopN
        /\ TopGroups(ServedBody.by_vehicle, "VEHICLE TYPE CODE 1")
        /\ TopGroups(ServedBody.by_factor, "CONTRIBUTING FACTOR VEHICLE 1")
        /\ NonIncreasing(ServedBody.by_vehicle)
        /\ NonIncreasing(ServedBody.by_factor)

\* C10: geo_data has at most 500 records, each inside the NYC bounding box.
GeoBounded ==
    Served200 =>
        /\ Len(ServedBody.geo_data) <= 500
        /\ \A i \in DOMAIN ServedBody.geo_data :
              /\ 404 <= ServedBody.geo_data[i].LATITUDE
              /\ ServedBody.geo_data[i].LATITUDE <= 409
              /\ -745 <= ServedBody.geo_data[i].LONGITUDE
              /\ ServedBody.geo_data[i].LONGITUDE <= -735

\* C10 witness: the cap bites (more than 500 rows of the filtered set have
\* coordinates inside the box, 500 are emitted) and rows outside the box or
\* without coordinates were left out
GeoCapBites ==
    /\ Served200
    /\ Len(ServedBody.geo_data) = 500
    /\ Cardinality({i \in DOMAIN df_cache.rows :
            /\ RowMatches(df_cache.rows[i], ServedFilters)
            /\ df_cache.rows[i]["LATITUDE"] \in 404..409
            /\ df_cache.rows[i]["LONGITUDE"] \in (-745)..(-735)}) > 500
    /\ \E i \in DOMAIN df_cache.rows : df_cache.rows[i]["LATITUDE"] = 415
    /\ \E i \in DOMAIN df_cache.rows : df_cache.rows[i]["LONGITUDE"] = -734
    /\ \E i \in DOMAIN df_cache.rows : df_cache.rows[i]["LATITUDE"] = NumNaN

(* ================== properties: the read-only dataset ================= *)

\* the table the loader produces from the source
LoadedTable == Normalise(ReadCsv(csv, 1))

\* C11: request handling never changes the cached dataset.  No step changes
\* the rows or the columns of a filled cache, and every catalog returned by
\* /api/filters is the catalog of the whole dataset as loaded, whatever stats
\* requests were served before it or are served next to it.
CacheReadOnly ==
    /\ [][df_cache # NoDf =>
            /\ df_cache'.rows = df_cache.rows
            /\ df_cache'.columns = df_cache.columns]_vars
    /\ [](\A t \in Threads :
            (req[t].kind = "filters" /\ resp[t].status = 200)
                => resp[t].body = FilterCatalog(LoadedTable.rows))
    /\ [](df_cache # NoDf => df_cache.rows = LoadedTable.rows)

\* C11 witness: a catalog has been returned and a stats request with a
\* constraint that leaves out rows has been answered on the same cache
CatalogBesideStats ==
    \E t \in Threads : \E u \in Threads :
        /\ req[t].kind = "filters" /\ resp[t].status = 200
        /\ Len(resp[t].body.years) = 3
        /\ req[u].kind = "stats" /\ resp[u].status = 200
        /\ Applies(req[u].filters, "year")
        /\ resp[u].body.total_persons < Len(df_cache.rows)

(* ===================== properties: the aggregates ===================== *)

\* the rows the handler aggregated: the filtered rows R of the served request
ServedRows == ApplyFilters(df_cache.rows, ServedFilters)

\* C12: total_crashes is the number of distinct collision_id values among the
\* filtered rows, not the number of rows.  On the dataset with collision A
\* (two person-rows, BROOKLYN, 2022) and collision B (one person-row, QUEENS,
\* 2021), {borough: "All"} gives 2 crashes, 3 persons and BROOKLYN 1, QUEENS 1,
\* and {year: "2022"} gives 1 crash, 2 persons and BROOKLYN 1.
DistinctCollisions ==
    Served200 =>
        /\ ServedBody.total_crashes =
              Cardinality({ServedRows[i]["COLLISION_ID"] : i \in DOMAIN ServedRows})
        /\ (csv = ScenarioFile /\ ServedFilters = [borough |-> "All"]) =>
              /\ ServedBody.total_crashes = 2
              /\ ServedBody.total_persons = 3
              /\ ServedBody.by_borough = ("BROOKLYN" :> 1) @@ ("QUEENS" :> 1)
        /\ (csv = ScenarioFile /\ ServedFilters = [year |-> "2022"]) =>
              /\ ServedBody.total_crashes = 1
              /\ ServedBody.total_persons = 2
              /\ ServedBody.by_borough = ("BROOKLYN" :> 1)

\* C12 witness: the scenario dataset queried with {year: "2022"}, one crash
\* counted for two person-rows
ScenarioYearServed ==
    /\ Served200
    /\ csv = ScenarioFile
    /\ ServedFilters = [year |-> "2022"]
    /\ ServedBody.total_crashes = 1
    /\ ServedBody.total_persons = 2

\* the sum of the values of a dict
RECURSIVE SumValues(_, _)
SumValues(f, keys) ==
    IF keys = {} THEN 0
    ELSE LET k == CHOOSE x \in keys : TRUE IN f[k] + SumValues(f, keys \ {k})

\* the boroughs under which the filtered rows record collision c
BoroughsOf(c) ==
    {ServedRows[i]["BOROUGH"] : i \in {j \in DOMAIN ServedRows : ServedRows[j]["COLLISION_ID"] = c}}

\* every filtered row has a borough, and no collision is recorded under two
Exhaustive == \A i \in DOMAIN ServedRows : ServedRows[i]["BOROUGH"] # StrNaN

Exclusive ==
    \A i \in DOMAIN ServedRows :
        Cardinality(BoroughsOf(ServedRows[i]["COLLISION_ID"]) \ {StrNaN}) <= 1

\* C13: by_borough has one entry per non-null borough of the filtered rows,
\* holding the number of distinct collisions recorded under that borough; when
\* every filtered row has a borough and no collision appears under two
\* boroughs the entries sum to total_crashes; in every case they sum to at
\* least the number of distinct collisions with a row that has a borough.
BoroughCounts ==
    Served200 =>
        LET bb == ServedBody.by_borough
            total == SumValues(bb, DOMAIN bb)
        IN  /\ DOMAIN bb = {ServedRows[i]["BOROUGH"] : i \in DOMAIN ServedRows} \ {StrNaN}
            /\ \A b \in DOMAIN bb :
                  bb[b] = Cardinality({ServedRows[i]["COLLISION_ID"] :
                              i \in {j \in DOMAIN ServedRows : ServedRows[j]["BOROUGH"] = b}})
            /\ (Exhaustive /\ Exclusive) => total = ServedBody.total_crashes
            /\ total >= Cardinality({ServedRows[i]["COLLISION_ID"] :
                              i \in {j \in DOMAIN ServedRows : ServedRows[j]["BOROUGH"] # StrNaN}})

\* C13 witness: two boroughs, a collision with two person-rows, every row
\* with a borough and no collision under two boroughs
BoroughsPartition ==
    /\ Served200
    /\ Exhaustive /\ Exclusive
    /\ Cardinality(DOMAIN ServedBody.by_borough) = 2
    /\ ServedBody.total_crashes = 2
    /\ ServedBody.total_persons = 3

\* a collision recorded under two boroughs is counted under both: the
\* entries sum to more than total_crashes
BoroughsOverlap ==
    /\ Served200
    /\ ~Exclusive
    /\ SumValues(ServedBody.by_borough, DOMAIN ServedBody.by_borough) > ServedBody.total_crashes

\* the filtered rows that the map leaves out: a coordinate is absent or
\* outside the NYC bounding box
OffMap(r) ==
    \/ r["LATITUDE"] = NumNaN \/ r["LONGITUDE"] = NumNaN
    \/ r["LATITUDE"] < 404 \/ r["LATITUDE"] > 409
    \/ r["LONGITUDE"] < -745 \/ r["LONGITUDE"] > -735

\* the entries of a value_counts dict count every filtered row of their group
CountsAllRows(entries, col) ==
    /\ {entries[i][1] : i \in DOMAIN entries}
            = {ServedRows[i][col] : i \in DOMAIN ServedRows} \ {StrNaN}
    /\ \A i \in DOMAIN entries :
          entries[i][2] = Cardinality({j \in DOMAIN ServedRows : ServedRows[j][col] = entries[i][1]})

\* C14: geo sampling does not affect the aggregates.  A filtered row whose
\* latitude or longitude is absent or outside the bounding box is in no
\* record of geo_data (the records are no more than the rows on the map, and
\* each lies in the box), and it is counted in total_persons, total_crashes,
\* the sums, by_borough, by_person_type and by_injury like every other row.
GeoIndependent ==
    Served200 =>
        LET off == {i \in DOMAIN ServedRows : OffMap(ServedRows[i])}
        IN  /\ Len(ServedBody.geo_data) <= Len(ServedRows) - Cardinality(off)
            /\ \A i \in DOMAIN ServedBody.geo_data :
                  \A j \in off :
                      \/ ServedRows[j]["LATITUDE"] # ServedBody.geo_data[i].LATITUDE
                      \/ ServedRows[j]["LONGITUDE"] # ServedBody.geo_data[i].LONGITUDE
            /\ ServedBody.total_persons = Len(ServedRows)
            /\ ServedBody.total_crashes =
                  Cardinality({ServedRows[i]["COLLISION_ID"] : i \in DOMAIN ServedRows})
            /\ ServedBody.total_injuries = SumColumn(ServedRows, "NUMBER OF PERSONS INJURED")
            /\ ServedBody.total_deaths = SumColumn(ServedRows, "NUMBER OF PERSONS KILLED")
            /\ DOMAIN ServedBody.by_borough =
                  {ServedRows[i]["BOROUGH"] : i \in DOMAIN ServedRows} \ {StrNaN}
            /\ CountsAllRows(ServedBody.by_person_type, "PERSON_TYPE")
            /\ CountsAllRows(ServedBody.by_injury, "PERSON_INJURY")

\* C14 witness: the filtered rows hold a row at latitude 41.5 and a row
\* without coordinates; geo_data is not empty and holds fewer records than
\* total_persons counts
OffMapRowCounted ==
    /\ Served200
    /\ \E i \in DOMAIN ServedRows : ServedRows[i]["LATITUDE"] = 415
    /\ \E i \in DOMAIN ServedRows : ServedRows[i]["LATITUDE"] = NumNaN
    /\ Len(ServedBody.geo_data) > 0
    /\ Len(ServedBody.geo_data) < ServedBody.total_persons
    /\ ServedBody.total_persons = Len(ServedRows)

(* ==================== properties: the search parser ================== *)

\* the query thread 1 has just parsed and the filters it answered with
SearchServed == req[1].kind = "search" /\ resp[1].status = 200

ServedQuery == req[1].filters.query

ParsedFilters == resp[1].body.filters

\* "Brooklyn 2022 pedestrian crashes"
Query1 ==
    <<"B", "r", "o", "o", "k", "l", "y", "n", " ", "2", "0", "2", "2", " ",
      "p", "e", "d", "e", "s", "t", "r", "i", "a", "n", " ",
      "c", "r", "a", "s", "h", "e", "s">>

\* "Manhattan cyclist killed"
Query2 ==
    <<"M", "a", "n", "h", "a", "t", "t", "a", "n", " ",
      "c", "y", "c", "l", "i", "s", "t", " ", "k", "i", "l", "l", "e", "d">>

\* the pairs of a capital and its small letter, both ways round
LetterPairs ==
    {<<UpperLetters[k], LowerLetters[k]>> : k \in DOMAIN UpperLetters}
        \cup {<<LowerLetters[k], UpperLetters[k]>> : k \in DOMAIN UpperLetters}

\* two characters are the same letter in either case, or the same character
SameLetter(a, b) == a = b \/ <<a, b>> \in LetterPairs

\* the keyword occurs in the text as typed, whatever the case of its letters
Occurs(text, keyword) ==
    LET kw == Spell(keyword)
    IN  \E i \in 1..(Len(text) - Len(kw) + 1) :
            \A k \in DOMAIN kw : SameLetter(text[i + k - 1], kw[k])

\* the characters a number must not touch to stand alone
LettersDigitsUnderscore ==
    {pr[1] : pr \in LetterPairs}
        \cup {"_", "0", "1", "2", "3", "4", "5", "6", "7", "8", "9"}

\* a four-digit number 20xx standing alone occurs at position i of the text
StandaloneYearAt(text, i) ==
    /\ i + 3 <= Len(text)
    /\ <<text[i], text[i + 1]>> = <<"2", "0">>
    /\ {text[i + 2], text[i + 3]} \subseteq {"0", "1", "2", "3", "4", "5", "6", "7", "8", "9"}
    /\ i > 1 => text[i - 1] \notin LettersDigitsUnderscore
    /\ i + 3 < Len(text) => text[i + 4] \notin LettersDigitsUnderscore

BoroughWords == {"bronx", "brooklyn", "manhattan", "queens", "staten island"}

PedestrianWords == {"pedestrian"}

CyclistWords == {"cyclist", "bicycle", "bike"}

OccupantWords == {"driver", "motorist"}

KilledWords == {"killed", "fatal", "death"}

InjuredWords == {"injured"}

OccursAny(text, keywords) == \E w \in keywords : Occurs(text, w)

\* C15: the parser maps "Brooklyn 2022 pedestrian crashes" to exactly
\* {borough: BROOKLYN, year: 2022, person_type: Pedestrian} and "Manhattan
\* cyclist killed" to exactly {borough: MANHATTAN, person_type: Cyclist,
\* injury_type: Killed}; for every query the result holds a key exactly when
\* a keyword of that dimension occurs in the query, in whatever case.
ParserExamples ==
    SearchServed =>
        /\ ServedQuery = Query1 =>
              ParsedFilters = [borough |-> "BROOKLYN", year |-> "2022",
                               person_type |-> "Pedestrian"]
        /\ ServedQuery = Query2 =>
              ParsedFilters = [borough |-> "MANHATTAN", person_type |-> "Cyclist",
                               injury_type |-> "Killed"]
        /\ DOMAIN ParsedFilters \subseteq {"borough", "year", "person_type", "injury_type"}
        /\ "borough" \in DOMAIN ParsedFilters <=> OccursAny(ServedQuery, BoroughWords)
        /\ "year" \in DOMAIN ParsedFilters <=>
              \E i \in 1..Len(ServedQuery) : StandaloneYearAt(ServedQuery, i)
        /\ "person_type" \in DOMAIN ParsedFilters <=>
              OccursAny(ServedQuery, PedestrianWords \cup CyclistWords \cup OccupantWords)
        /\ "injury_type" \in DOMAIN ParsedFilters <=>
              OccursAny(ServedQuery, KilledWords \cup InjuredWords)

\* C15 witness: the first query of the docstring parsed to its three filters
FirstExampleParsed ==
    /\ SearchServed
    /\ ServedQuery = Query1
    /\ ParsedFilters = [borough |-> "BROOKLYN", year |-> "2022", person_type |-> "Pedestrian"]

\* the position at which a keyword first occurs in the text, 0 if nowhere
FirstAt(text, keyword) ==
    IF ~Occurs(text, keyword) THEN 0
    ELSE CHOOSE i \in 1..Len(text) :
            /\ \A k \in DOMAIN Spell(keyword) :
                  i + k - 1 <= Len(text) /\ SameLetter(text[i + k - 1], Spell(keyword)[k])
            /\ \A j \in 1..(i - 1) :
                  \E k \in DOMAIN Spell(keyword) :
                      j + k - 1 > Len(text) \/ ~SameLetter(text[j + k - 1], Spell(keyword)[k])

\* C18: one value per dimension, chosen by fixed priority and not by the
\* position in the query.  The borough is the first of bronx, brooklyn,
\* manhattan, queens, staten island that occurs; the year is the leftmost
\* standalone 20xx number; the person type is Pedestrian if a pedestrian
\* keyword occurs, else Cyclist, else Occupant; the injury type is Killed if
\* a killed keyword occurs, else Injured.
FixedPriority ==
    SearchServed =>
        LET q == ServedQuery
            f == ParsedFilters
        IN  /\ "borough" \in DOMAIN f =>
                  f.borough =
                      IF Occurs(q, "bronx") THEN "BRONX"
                      ELSE IF Occurs(q, "brooklyn") THEN "BROOKLYN"
                      ELSE IF Occurs(q, "manhattan") THEN "MANHATTAN"
                      ELSE IF Occurs(q, "queens") THEN "QUEENS"
                      ELSE "STATEN ISLAND"
            /\ "year" \in DOMAIN f =>
                  \E i \in 1..Len(q) :
                      /\ StandaloneYearAt(q, i)
                      /\ \A j \in 1..(i - 1) : ~StandaloneYearAt(q, j)
                      /\ Spell(f.year) = SubSeq(q, i, i + 3)
            /\ "person_type" \in DOMAIN f =>
                  f.person_type =
                      IF OccursAny(q, PedestrianWords) THEN "Pedestrian"
                      ELSE IF OccursAny(q, CyclistWords) THEN "Cyclist"
                      ELSE "Occupant"
            /\ "injury_type" \in DOMAIN f =>
                  f.injury_type = IF OccursAny(q, KilledWords) THEN "Killed" ELSE "Injured"

\* C18 witness: queens is typed before bronx, and the parser answers with
\* BRONX, the borough of higher priority
PriorityBeatsPosition ==
    /\ SearchServed
    /\ Occurs(ServedQuery, "queens") /\ Occurs(ServedQuery, "bronx")
    /\ FirstAt(ServedQuery, "queens") < FirstAt(ServedQuery, "bronx")
    /\ ParsedFilters.borough = "BRONX"

\* an injured keyword is typed before a killed one, the answer is Killed
KilledBeatsInjured ==
    /\ SearchServed
    /\ Occurs(ServedQuery, "injured") /\ Occurs(ServedQuery, "fatal")
    /\ FirstAt(ServedQuery, "injured") < FirstAt(ServedQuery, "fatal")
    /\ ParsedFilters.injury_type = "Killed"

(* ===================== properties: the health check =================== *)

\* a health request that found the cache empty is past its guard
PastGuard(t) == req[t].kind = "health" /\ pc[t] \in {"gdf_check", "gdf_read", "gdf_norm", "gdf_install", "body"}

HealthWithoutFile ==
    \E t \in Threads :
        /\ req[t].kind = "health" /\ pc[t] = "idle"
        /\ resp[t].status = 200 /\ ~resp[t].body.data_loaded
        /\ ~csv.exists

(* ====================== properties: the geo sample ==================== *)

\* the filtered rows with both coordinates present and inside the box, in
\* dataset order
OnMapRows == SelectSeq(ServedRows, LAMBDA r : ~OffMap(r))

\* the record is the one emitted for the row
RecordOf(rec, r) ==
    /\ rec.LATITUDE = r["LATITUDE"]
    /\ rec.LONGITUDE = r["LONGITUDE"]
    /\ rec.BOROUGH = r["BOROUGH"]
    /\ rec.VEHICLE_TYPE = Str(r["VEHICLE TYPE CODE 1"])
    /\ rec.INJURY_TYPE = Str(r["PERSON_INJURY"])

EmptyGeoList ==
    /\ Served200
    /\ ServedBody.total_persons > 0
    /\ ServedBody.geo_data = <<>>

(* ============== properties: the health check after the load =========== *)

\* C19: once the dataset is loaded and the source file exists, a health
\* check completes normally.  The guard that tests the cache lets the request
\* pass to its response without failing and without a call of the loader,
\* and the response is status "healthy" with data_loaded = true.
HealthyOnceLoaded ==
    [][\A t \in Threads :
        (req[t].kind = "health" /\ df_cache # NoDf /\ csv.exists) =>
            /\ (pc[t] = "health" /\ pc'[t] # "health") =>
                  pc'[t] = "body" /\ resp'[t] = NoResponse
            /\ (pc[t] = "body" /\ pc'[t] = "idle") =>
                  /\ resp'[t].status = 200
                  /\ resp'[t].body.status = "healthy"
                  /\ resp'[t].body.data_loaded]_vars

(* ================ properties: the cache is assigned last ============== *)

\* the table has its date column standardised and its YEAR column derived
FullyInitialised(df) ==
    /\ "CRASH_DATE" \in Range(df.columns)
    /\ "YEAR" \in Range(df.columns)
    /\ \A i \in DOMAIN df.rows :
          /\ {"CRASH_DATE", "YEAR"} \subseteq DOMAIN df.rows[i]
          /\ \/ df.rows[i]["CRASH_DATE"] = NaT
             \/ Len(df.rows[i]["CRASH_DATE"]) = 2 /\ df.rows[i]["CRASH_DATE"][2] \in 1..12
          /\ df.rows[i]["YEAR"] =
                IF df.rows[i]["CRASH_DATE"] = NaT THEN NumNaN
                ELSE df.rows[i]["CRASH_DATE"][1]

\* C20: no request observes a partially initialised dataset.  Under every
\* interleaving, a non-empty cache holds a table with CRASH_DATE standardised
\* and YEAR derived, and so does every dataframe a handler works on.
CacheAssignedLast ==
    /\ df_cache # NoDf => FullyInitialised(df_cache)
    /\ \A t \in Threads :
          (pc[t] = "body" /\ local_df[t] # NoDf) => FullyInitialised(local_df[t])

\* C20 witness: the date column of the file has another name; one thread
\* works on the cached table while another is between reading the file and
\* storing its own table
ReaderBesideLoader ==
    \E t \in Threads : \E u \in Threads :
        /\ "CRASH_DATE" \notin Range(csv.columns)
        /\ df_cache # NoDf
        /\ pc[t] = "body" /\ local_df[t] = df_cache
        /\ pc[u] = "gdf_norm"
        /\ ~FullyInitialised(local_df[u])

(* ======================= properties: the import ======================= *)

\* the values of SAMPLE_ROWS that are positive integers
PositiveSample == [e \in {"2", "7"} |-> IF e = "2" THEN 2 ELSE 7]

\* the number of rows one import of the file stores under the run's setting
\* of SAMPLE_ROWS
OneImportLen ==
    IF imp.env \in DOMAIN PositiveSample
    THEN Min(PositiveSample[imp.env], Len(csv.rows))
    ELSE Len(csv.rows)

\* the stored row holds the cells of the file's row, NULL where the file
\* has no value or a date that cannot be parsed
StoredFrom(stored, raw) ==
    \A c \in Range(columns) :
        IF c = "CRASH_DATE"
        THEN stored[c] = (IF Len(raw[c]) = 2 /\ raw[c][2] \in 1..12 THEN <<raw[c]>> ELSE <<>>)
        ELSE stored[c] = (IF raw[c] = NaOf(c) THEN <<>> ELSE <<raw[c]>>)

\* C21: the import is idempotent.  When a run of the script has completed,
\* whatever runs came before it (completed or broken off, under any setting
\* of SAMPLE_ROWS), the crashes table holds exactly the rows of one import
\* of the file, in the file's order: all its rows, or the first SAMPLE_ROWS
\* rows when SAMPLE_ROWS is a positive integer, and no row of an earlier run.
ImportIdempotent ==
    (imp.pc = "idle" /\ imp.completed) =>
        /\ table.exists
        /\ Len(table.rows) = OneImportLen
        /\ \A i \in DOMAIN table.rows : StoredFrom(table.rows[i], csv.rows[i])

\* a second or later run over a file of several chunks has completed in
\* full mode, with SAMPLE_ROWS set to 0
RepeatedFullImport ==
    /\ imp.pc = "idle" /\ imp.completed
    /\ imp.runs >= 2
    /\ imp.env = "0"
    /\ Len(csv.rows) > 2 * chunk_size
    /\ Len(table.rows) = Len(csv.rows)

\* a second or later run has completed in sample mode with fewer rows than
\* the file holds
RepeatedSampleImport ==
    /\ imp.pc = "idle" /\ imp.completed
    /\ imp.runs >= 2
    /\ imp.env = "2"
    /\ Len(csv.rows) > 2
    /\ Len(table.rows) = 2

====
